---------------------------- MODULE Spec2Model ----------------------------
(***************************************************************************)
(* A model of the sync engine of tap-adwords (src/tap_adwords/__init__.py):*)
(* the dispatcher over accounts and streams, the day-windowed report       *)
(* iterator with its 90-day lookback clamp, the offset paginator of the    *)
(* entity streams, field selection, exclusion validation and the state     *)
(* mapping with its flushes.                                               *)
(*                                                                         *)
(* Time is counted in slots; SlotsPerDay slots make one UTC day.  A        *)
(* datetime is a slot number, its calendar day is DayOf(t).                *)
(***************************************************************************)
EXTENDS Integers, Sequences, FiniteSets, TLC

\* ------------------------------------------------------------- constants
PAGE_SIZE == 100

LOOKBACK_DAYS == 90

GENERIC_ENDPOINT_MAPPINGS == {"campaigns", "ad_groups", "ads", "accounts"}

REPORTS_WITH_90_DAY_MAX == {"CLICK_PERFORMANCE_REPORT"}

CAMPAIGNS_BLACK_LISTED_FIELDS ==
    {"networkSetting", "conversionOptimizerEligibility", "frequencyCap"}

AD_GROUPS_BLACK_LISTED_FIELDS == {"biddingStrategyConfiguration"}

\* ---------------------------------------------------------------- bounds
\* resolution of the clock: slots in one day
SlotsPerDay == 2

\* the day on which the earliest modelled run starts
Day0 == 91

\* how many times the clock advances in one behaviour
MaxTicks == 2

\* most data rows a one-day report download returns
MaxRows == 2

\* largest server-reported totalNumEntries of an entity listing
MaxTotal == 250

\* the most properties of a schema drawn as an input of field selection
MaxFields == 2

\* the longest string drawn from the alphabet as a raw value
MaxChars == 3

\* ------------------------------------------------------------ time
Days(n) == n * SlotsPerDay

\* start.strftime('%Y%m%d'): the calendar day of a datetime
DayOf(t) == t \div SlotsPerDay

\* ------------------------------------------------------------ helpers
Range(s) == {s[k] : k \in DOMAIN s}

SeqMap(Op(_), s) == [k \in DOMAIN s |-> Op(s[k])]

RECURSIVE SetToSeqs(_)
\* every ordering of a finite set, as sequences without repetition
SetToSeqs(S) ==
    IF S = {} THEN {<<>>}
    ELSE UNION {{<<x>> \o t : t \in SetToSeqs(S \ {x})} : x \in S}

\* state_key_name(customer_id, report_name): report_name + "_" + customer_id
state_key_name(customer_id, report_name) == <<report_name, customer_id>>

\* ------------------------------------------------ remote report metadata
\* What ReportDefinitionService.getReportFields answers (every report type
\* gets the same four fields here).  hasExclusive is hasattr(field,
\* "exclusiveFields").
ReportFields ==
    << [fieldName |-> "Date", xmlAttributeName |-> "day",
        hasExclusive |-> FALSE, exclusiveFields |-> {}],
       [fieldName |-> "Clicks", xmlAttributeName |-> "clicks",
        hasExclusive |-> TRUE, exclusiveFields |-> {"ConversionTypeName"}],
       [fieldName |-> "ConversionTypeName", xmlAttributeName |-> "conversionName",
        hasExclusive |-> TRUE, exclusiveFields |-> {"Clicks", "Device"}],
       [fieldName |-> "Device", xmlAttributeName |-> "device",
        hasExclusive |-> FALSE, exclusiveFields |-> {}] >>

get_report_definition_service(report_type) == ReportFields

\* the report types the remote service has
KnownReportTypes == {"CLICK_PERFORMANCE_REPORT", "AD_PERFORMANCE_REPORT"}

\* create_schema_for_report: the properties in insertion order, each with
\* the remote field name and the inclusion marker ("none" when the property
\* carries no inclusion key)
create_schema_for_report(report_type) ==
    LET fields == get_report_definition_service(report_type)
        prop(f) == [name |-> f.xmlAttributeName, field |-> f.fieldName,
                    inclusion |-> IF f.xmlAttributeName = "day"
                                  THEN "automatic" ELSE "available"]
        base == SeqMap(prop, fields)
               \o << [name |-> "customer_id", field |-> "customer_id",
                      inclusion |-> "automatic"] >>
    IN  IF report_type = "AD_PERFORMANCE_REPORT"
        THEN base \o << [name |-> "imageMimeType",
                         field |-> "ImageCreativeMimeType",
                         inclusion |-> "none"] >>
        ELSE base

\* load_schema(entity): the schema file of an entity stream.  The files are
\* data; this is the content the model reads from them.
load_schema(entity) ==
    << [name |-> "id", field |-> "id", inclusion |-> "automatic"],
       [name |-> "name", field |-> "name", inclusion |-> "available"],
       [name |-> "networkSetting", field |-> "networkSetting",
        inclusion |-> "available"],
       [name |-> "labels", field |-> "labels", inclusion |-> "unsupported"] >>

\* ------------------------------------------------------- field selection
SchemaNames(schema) == {schema[k].name : k \in DOMAIN schema}

Property(schema, field) ==
    schema[CHOOSE k \in DOMAIN schema : schema[k].name = field]

\* annotated_schema['properties'][field].get('selected'), as a truth value
IsSelected(annotated, field) == Property(annotated, field).selected = "true"

\* should_sync raises KeyError when the annotation is not selected and the
\* discovered schema has no such property
ShouldSyncRaises(discovered, annotated, field) ==
    /\ ~IsSelected(annotated, field)
    /\ field \notin SchemaNames(discovered)

should_sync(discovered, annotated, field) ==
    \/ IsSelected(annotated, field)
    \/ /\ field \in SchemaNames(discovered)
       /\ Property(discovered, field).inclusion = "automatic"

FieldsToSyncRaises(discovered, annotated) ==
    \E k \in DOMAIN annotated :
        ShouldSyncRaises(discovered, annotated, annotated[k].name)

get_fields_to_sync(discovered, annotated) ==
    LET fields == SeqMap(LAMBDA p : p.name, annotated)
        keep(f) == should_sync(discovered, annotated, f)
    IN  SelectSeq(fields, keep)


\* filter_fields_by_stream_name raises for a name outside the four streams
FilterRaises(name) == name \notin GENERIC_ENDPOINT_MAPPINGS

filter_fields_by_stream_name(name, fields_to_sync) ==
    IF name = "campaigns"
    THEN SelectSeq(fields_to_sync, LAMBDA f : f \notin CAMPAIGNS_BLACK_LISTED_FIELDS)
    ELSE IF name = "ad_groups"
    THEN SelectSeq(fields_to_sync, LAMBDA f : f \notin AD_GROUPS_BLACK_LISTED_FIELDS)
    ELSE fields_to_sync

\* f[0].upper() + f[1:] on the property names the model knows
UpperFirst(f) ==
    CASE f = "id" -> "Id"
      [] f = "name" -> "Name"
      [] f = "networkSetting" -> "NetworkSetting"
      [] f = "labels" -> "Labels"
      [] OTHER -> f

\* ---------------------------------------------------- exclusion validation
\* the loop of sync_report that turns property names into remote field
\* names, leaving customer_id out; it raises KeyError on a name the
\* discovered schema does not have
FieldListRaises(schema, attribute_list) ==
    \E k \in DOMAIN attribute_list :
        /\ attribute_list[k] # "customer_id"
        /\ attribute_list[k] \notin SchemaNames(schema)

ReportFieldList(schema, attribute_list) ==
    LET kept == SelectSeq(attribute_list, LAMBDA f : f # "customer_id")
    IN  SeqMap(LAMBDA f : Property(schema, f).field, kept)

\* field_map = {f.fieldName: f.xmlAttributeName for f in fields}
FieldMap(fields, fieldName) ==
    (CHOOSE f \in Range(fields) : f.fieldName = fieldName).xmlAttributeName

\* check_selected_fields reporting only the first field in conflict
SelectionErrorsFirstOnly(report_type, selected_fields) ==
    LET field_set == Range(selected_fields)
        fields == get_report_definition_service(report_type)
        field_errors(f) ==
            {FieldMap(fields, ex) : ex \in (f.exclusiveFields \cap field_set)}
        bad(f) == /\ f.fieldName \in field_set
                  /\ f.hasExclusive
                  /\ field_errors(f) # {}
        all == SeqMap(LAMBDA f : [field |-> f.xmlAttributeName,
                                  with |-> field_errors(f)],
                      SelectSeq(fields, bad))
    IN  IF all = <<>> THEN <<>> ELSE << all[1] >>

\* the list `errors` of check_selected_fields: one entry per selected field
\* that has a selected exclusive sibling, in the order of the metadata,
\* naming the field and its selected siblings
SelectionErrors(report_type, selected_fields) ==
    LET field_set == Range(selected_fields)
        fields == get_report_definition_service(report_type)
        field_errors(f) ==
            {FieldMap(fields, ex) : ex \in (f.exclusiveFields \cap field_set)}
        bad(f) == /\ f.fieldName \in field_set
                  /\ f.hasExclusive
                  /\ field_errors(f) # {}
    IN  SeqMap(LAMBDA f : [field |-> f.xmlAttributeName, with |-> field_errors(f)],
               SelectSeq(fields, bad))

\* ------------------------------------------------------------ the cursor
\* update_state with its comparison turned round: a later day is not stored
update_state_turned(state, entity, dtime) ==
    IF entity \notin DOMAIN state THEN state @@ (entity :> dtime)
    ELSE IF dtime <= state[entity] THEN [state EXCEPT ![entity] = dtime]
    ELSE state

\* singer's utils.update_state as called at the end of a day: the entry
\* becomes dtime unless a later one is stored
update_state(state, entity, dtime) ==
    IF entity \notin DOMAIN state THEN state @@ (entity :> dtime)
    ELSE IF dtime >= state[entity] THEN [state EXCEPT ![entity] = dtime]
    ELSE state

\* get_start: the state mapping after the read (an absent key is stored
\* with the configured start date)
get_start(state, entity, config_start) ==
    IF entity \in DOMAIN state THEN state ELSE state @@ (entity :> config_start)

\* the first day-window taken one day before the cursor
InitialStartDayBefore(report_type, cursor, utcnow) == cursor - Days(1)

\* the first day-window without the clamp of the bounded lookback
InitialStartNoClamp(report_type, cursor, utcnow) == cursor

\* the first day-window of sync_report: the stored cursor, moved forward to
\* utcnow() - 90 days for the reports with a bounded lookback
InitialStart(report_type, cursor, utcnow) ==
    LET cutoff == utcnow - Days(LOOKBACK_DAYS)
    IN  IF report_type \in REPORTS_WITH_90_DAY_MAX /\ cursor < cutoff
        THEN cutoff
        ELSE cursor

\* the condition of `while start_date <= pendulum.now()`
LoopContinues(start, t) == start <= t

\* the loop of sync_report without its step to the next day
NextStartSameDay(start) == start

\* start_date.add(days=1)
NextStart(start) == start + Days(1)

\* ------------------------------------------------------------- the pager
\* what the listing service returns for a page: the number of entries
PageEntries(total, startIndex) ==
    IF total - startIndex >= PAGE_SIZE THEN PAGE_SIZE
    ELSE IF total > startIndex THEN total - startIndex
    ELSE 0

\* the loop flag set when the next offset has merely reached the total
MorePagesInclusive(next_offset, total) == next_offset <= total

\* more_pages = offset < int(page['totalNumEntries'])
MorePages(next_offset, total) == next_offset < total

\* the first offset taken from an entry of the state mapping
InitialOffsetFromState(state, entity) ==
    IF entity \in DOMAIN state THEN state[entity] ELSE 0

\* offset = 0: the first page of every run, whatever the state mapping holds
InitialOffset(state, entity) == 0

NextOffset(off) == off + PAGE_SIZE

\* ------------------------------------------------------- the transformer
\* Raw values are records: kind is "null", "bool", "num", "str", "list" or
\* "dict"; s holds the characters of a string; n holds the truth value of a
\* boolean (0 or 1), the number, or the length of a list or dict.
NullValue == [kind |-> "null", s |-> <<>>, n |-> 0]

Str(chars) == [kind |-> "str", s |-> chars, n |-> 0]

\* sub in s
Contains(s, sub) ==
    \E k \in 0 .. Len(s) - Len(sub) : SubSeq(s, k + 1, k + Len(sub)) = sub

\* s.endswith(suffix)
EndsWith(s, suffix) ==
    /\ Len(s) >= Len(suffix)
    /\ SubSeq(s, Len(s) - Len(suffix) + 1, Len(s)) = suffix

\* s.replace(ch, '')
Replace(s, ch) == SelectSeq(s, LAMBDA c : c # ch)

\* the truth value Python gives a value in `data and ...`
Truthy(v) ==
    CASE v.kind = "null" -> FALSE
      [] v.kind = "str" -> v.s # <<>>
      [] OTHER -> v.n # 0

\* transform_pre_hook raises AttributeError: a value that is no string has
\* no endswith
PreHookRaises(v, t) ==
    /\ v.kind # "str"
    /\ Truthy(v)
    /\ t = "number"

\* transform_pre_hook taking only the string "--" itself for the sentinel
transform_pre_hook_whole(v, t) ==
    IF v.kind = "str" /\ v.s = << "-", "-" >>
    THEN NullValue
    ELSE IF Truthy(v) /\ t = "number"
    THEN LET d1 == IF v.s = << ">", " ", "9", "0", "%" >>
                   THEN << "9", "0", ".", "0", "1" >> ELSE v.s
             d2 == IF d1 = << "<", " ", "1", "0", "%" >>
                   THEN << "9", ".", "9", "9" >> ELSE d1
             d3 == IF EndsWith(d2, << " ", "x" >>)
                   THEN SubSeq(d2, 1, Len(d2) - 2) ELSE d2
         IN  Str(Replace(d3, "%"))
    ELSE v

\* transform_pre_hook(data, typ, schema) where it does not raise
transform_pre_hook(v, t) ==
    IF v.kind = "str" /\ Contains(v.s, << "-", "-" >>)
    THEN NullValue
    ELSE IF Truthy(v) /\ t = "number"
    THEN LET d1 == IF v.s = << ">", " ", "9", "0", "%" >>
                   THEN << "9", "0", ".", "0", "1" >> ELSE v.s
             d2 == IF d1 = << "<", " ", "1", "0", "%" >>
                   THEN << "9", ".", "9", "9" >> ELSE d1
             d3 == IF EndsWith(d2, << " ", "x" >>)
                   THEN SubSeq(d2, 1, Len(d2) - 2) ELSE d2
         IN  Str(Replace(d3, "%"))
    ELSE v

\* ------------------------------------------------------------- the state
VARIABLES
    CONFIG,           \* start_date and customer_ids (the list of accounts)
    properties,       \* the annotated catalog: the list of streams
    State,            \* STATE, the in-memory state mapping: key -> datetime
    stateIn,          \* the state this run was started with (args.state)
    totalNumEntries,  \* the server's entry count of an entity listing
    now,              \* the wall clock
    ticks,            \* how often the clock has advanced
    run,              \* 1 for the first run, 2 for the run after a restart
    pc,               \* the position of the run in the code
    error,            \* what ended the run, "" while none
    errors,           \* the conflicts check_selected_fields raised with
    ci,               \* position of do_sync_all_customers in customer_ids
    si,               \* position of do_sync in the catalog
    stream_schema,    \* the discovered schema of the stream being synced
    xml_attribute_list, \* sync_report: the property names to sync
    field_list,       \* the remote field names sent with each request
    start_date,       \* sync_report: the day-window being synced
    loop_now,         \* the clock as the while condition last read it
    values,           \* number of data rows of the downloaded report
    i,                \* sync_report_for_day: ordinal of the next row
    offset,           \* sync_generic_endpoint: the paging offset
    more_pages,       \* sync_generic_endpoint: the loop flag
    flushed,          \* the state snapshot written last, if one was written
    fetched,          \* per key: the days requested in this run, in order
    complete,         \* per key: the days all of whose rows were written
    updates,          \* per key: the days update_state was called with
    flushes,          \* per key: the days write_state was called after
    lastRec,          \* how far the output has got: the records written by
                      \* the last writing step (account, stream, day, first
                      \* and last ordinal), or the day-window closed last
    schemas,          \* the schema declarations written, in order
    started,          \* per key: the cursor get_start read, the first
                      \* start_date and the clock it was clamped with
    pages,            \* per key: the offsets requested in this run, in order
    prev,             \* what the first run did, kept across a restart
    described,        \* the keys getReportFields was called for, in order
    data,             \* transform_pre_hook: the raw value it is given
    typ,              \* transform_pre_hook: the type it is given
    hooked            \* transform_pre_hook: the value it returned

vars == << CONFIG, properties, State, stateIn, totalNumEntries, now, ticks, run,
           pc, error, errors, ci, si, stream_schema, xml_attribute_list,
           field_list,
           start_date, loop_now, values, i, offset, more_pages, flushed,
           fetched, complete, updates, flushes, lastRec, schemas,
           started, pages, prev, described, data, typ, hooked >>

config_vars == << CONFIG, properties, stateIn, totalNumEntries, run, prev >>

report_locals == << stream_schema, xml_attribute_list, start_date, loop_now,
                   values, i >>

generic_locals == << offset, more_pages >>

hook_vars == << data, typ, hooked >>

report_history == << fetched, complete, updates, flushes, started >>

\* the keys of a run: every stream of the catalog for every account
KeysOf(config, catalog) ==
    {state_key_name(config.customer_ids[a], catalog[k].stream) :
        a \in DOMAIN config.customer_ids, k \in DOMAIN catalog}

Keys == KeysOf(CONFIG, properties)

NoRec == [ci |-> 0, si |-> 0, day |-> 0, first |-> 0, last |-> -1,
          closed |-> FALSE]

NoFlush == [written |-> FALSE, state |-> <<>>]

NotStarted == [cursor |-> -1, start |-> -1, utcnow |-> -1]

NoPrev == [fetched |-> <<>>, complete |-> <<>>, flushes |-> <<>>,
           pages |-> <<>>, started |-> <<>>, failed |-> FALSE]

customer_id == CONFIG.customer_ids[ci]

stream == properties[si]

stream_name == stream.stream

annotated_stream_schema == stream.properties

key == state_key_name(customer_id, stream_name)

Terminated == pc \in {"done", "failed"}

\* an exception that do_sync catches, going on with the next stream
ExceptionSkipsStream == "report_done"

\* where the run is after an exception: neither sync_stream, do_sync,
\* do_sync_all_customers nor main catches any, so the process ends
UncaughtException == "failed"

\* every stream taken as selected
SelectedAlways(s) == TRUE

\* stream_schema.get('selected') of a stream of the catalog
Selected(s) == s.selected

\* every row given the same _sdc_id
SdcIdZero(row) == 0

\* obj['_sdc_id'] = i: the ordinal of the row in the day's report
SdcId(row) == row

\* no call of transform_pre_hook is under way
InitHookIdle ==
    /\ data = NullValue
    /\ typ = "null"
    /\ hooked = NullValue

\* the locals and the history of a run that has not done anything yet
InitLocals ==
    /\ ticks = 0
    /\ run = 1
    /\ error = ""
    /\ errors = <<>>
    /\ ci = 1
    /\ si = 1
    /\ xml_attribute_list = <<>>
    /\ field_list = <<>>
    /\ start_date = 0
    /\ loop_now = 0
    /\ values = 0
    /\ i = 0
    /\ offset = 0
    /\ more_pages = FALSE
    /\ flushed = NoFlush
    /\ fetched = [k \in Keys |-> <<>>]
    /\ complete = [k \in Keys |-> {}]
    /\ updates = [k \in Keys |-> <<>>]
    /\ flushes = [k \in Keys |-> <<>>]
    /\ lastRec = NoRec
    /\ schemas = <<>>
    /\ started = [k \in Keys |-> NotStarted]
    /\ pages = [k \in Keys |-> <<>>]
    /\ prev = NoPrev
    /\ described = <<>>

\* the state after main() has loaded the configuration, the state file and
\* the catalog
InitWith(customers, catalogs, starts, nows, stored, totals) ==
    /\ CONFIG \in [start_date : starts, customer_ids : customers]
    /\ properties \in catalogs
    /\ State \in stored
    /\ DOMAIN State \subseteq Keys
    /\ stateIn = State
    /\ totalNumEntries \in totals
    /\ now \in nows
    /\ pc = "do_sync_all_customers"
    /\ stream_schema = <<>>
    /\ InitLocals
    /\ InitHookIdle


\* ------------------------------------------------------- the dispatcher
\* do_sync_all_customers: the head of the loop over the accounts
DoSyncAllCustomers ==
    /\ pc = "do_sync_all_customers"
    /\ IF ci <= Len(CONFIG.customer_ids)
       THEN /\ pc' = "do_sync"
            /\ si' = 1
       ELSE /\ pc' = "done"
            /\ si' = si
    /\ UNCHANGED << config_vars, hook_vars, described,
                    State, now, ticks, error, errors, ci,
                    field_list, report_locals, generic_locals, flushed,
                    report_history, lastRec, schemas, pages >>

\* do_sync: the head of the loop over the streams of the catalog, with the
\* dispatch of sync_stream
DoSync ==
    /\ pc = "do_sync"
    /\ IF si > Len(properties)
       THEN /\ pc' = "do_sync_all_customers"
            /\ ci' = ci + 1
            /\ si' = si
       ELSE IF Selected(stream)
       THEN /\ pc' = IF stream_name \in GENERIC_ENDPOINT_MAPPINGS
                     THEN "sync_generic_endpoint"
                     ELSE "sync_report"
            /\ UNCHANGED << ci, si >>
       ELSE /\ si' = si + 1
            /\ UNCHANGED << pc, ci >>
    /\ UNCHANGED << config_vars, hook_vars, described,
                    State, now, ticks, error, errors,
                    field_list, report_locals, generic_locals, flushed,
                    report_history, lastRec, schemas, pages >>

\* --------------------------------------------------------- report streams
\* sync_report up to write_schema: the schema from the remote metadata, the
\* fields to sync, the schema declaration.  For a report type it does not
\* know the metadata service may answer with a fault or with fields.
SyncReport ==
    /\ pc = "sync_report"
    /\ described' = Append(described, key)
    /\ \/ /\ stream_name \notin KnownReportTypes
          /\ pc' = UncaughtException
          /\ error' = "RemoteError"
          /\ UNCHANGED << stream_schema, xml_attribute_list, schemas >>
       \/ /\ stream_schema' = create_schema_for_report(stream_name)
          /\ IF FieldsToSyncRaises(stream_schema', annotated_stream_schema)
             THEN /\ pc' = UncaughtException
                  /\ error' = "KeyError"
                  /\ UNCHANGED << xml_attribute_list, schemas >>
             ELSE /\ xml_attribute_list' =
                         get_fields_to_sync(stream_schema',
                                            annotated_stream_schema)
                  /\ schemas' = Append(schemas, key)
                  /\ pc' = "check_selected_fields"
                  /\ error' = error
    /\ UNCHANGED << config_vars, hook_vars, State, now, ticks, errors, ci, si,
                    field_list,
                    start_date, loop_now, values, i, generic_locals, flushed,
                    report_history, lastRec, pages >>

\* sync_report: the remote field names, then check_selected_fields
CheckSelectedFields ==
    /\ pc = "check_selected_fields"
    /\ IF FieldListRaises(stream_schema, xml_attribute_list)
       THEN /\ pc' = UncaughtException
            /\ error' = "KeyError"
            /\ UNCHANGED << field_list, errors, described >>
       ELSE LET fl == ReportFieldList(stream_schema, xml_attribute_list)
                errs == SelectionErrors(stream_name, fl)
            IN  /\ field_list' = fl
                /\ described' = Append(described, key)
                /\ IF errs # <<>>
                   THEN /\ pc' = UncaughtException
                        /\ error' = "ExclusionError"
                        /\ errors' = errs
                   ELSE /\ pc' = "get_start"
                        /\ UNCHANGED << error, errors >>
    /\ UNCHANGED << config_vars, hook_vars, State, now, ticks, ci, si,
                    report_locals, generic_locals, flushed, report_history,
                    lastRec, schemas, pages >>

\* sync_report: the cursor is read (and stored when absent) and clamped
GetStart ==
    /\ pc = "get_start"
    /\ State' = get_start(State, key, CONFIG.start_date)
    /\ start_date' = InitialStart(stream_name, State'[key], now)
    /\ started' = [started EXCEPT ![key] =
                      [cursor |-> State'[key], start |-> start_date',
                       utcnow |-> now]]
    /\ pc' = "report_loop"
    /\ UNCHANGED << config_vars, hook_vars, described,
                    now, ticks, error, errors, ci, si,
                    stream_schema, xml_attribute_list, field_list, loop_now,
                    values, i, generic_locals, flushed, fetched, complete,
                    updates, flushes, lastRec, schemas, pages >>

\* sync_report: the condition of the while loop, with the clock read anew
ReportLoop ==
    /\ pc = "report_loop"
    /\ loop_now' = now
    /\ pc' = IF LoopContinues(start_date, now)
             THEN "sync_report_for_day"
             ELSE "report_done"
    /\ UNCHANGED << config_vars, hook_vars, described,
                    State, now, ticks, error, errors, ci, si,
                    stream_schema, xml_attribute_list, field_list, start_date, values, i,
                    generic_locals, flushed, report_history, lastRec, schemas, pages >>

\* sync_report_for_day: the download of the day's report and its parsing
DownloadReport ==
    /\ pc = "sync_report_for_day"
    /\ \E n \in 0 .. MaxRows :
         /\ values' = n
         /\ complete' = IF n = 0
                        THEN [complete EXCEPT ![key] = @ \cup {DayOf(start_date)}]
                        ELSE complete
         /\ pc' = IF n = 0 THEN "update_state" ELSE "write_record"
    /\ i' = 0
    /\ fetched' = [fetched EXCEPT ![key] = Append(@, DayOf(start_date))]
    /\ UNCHANGED << config_vars, hook_vars, described,
                    State, now, ticks, error, errors, ci, si,
                    stream_schema, xml_attribute_list, field_list, start_date, loop_now,
                    generic_locals, flushed, updates, flushes, started,
                    lastRec, schemas, pages >>

\* sync_report_for_day: one turn of the loop over the rows; the record
\* gets _sdc_id = i
WriteRecord ==
    /\ pc = "write_record"
    /\ i < values
    /\ lastRec' = [ci |-> ci, si |-> si, day |-> DayOf(start_date),
                   first |-> SdcId(i), last |-> SdcId(i), closed |-> FALSE]
    /\ i' = i + 1
    /\ IF i + 1 = values
       THEN /\ pc' = "update_state"
            /\ complete' = [complete EXCEPT ![key] = @ \cup {DayOf(start_date)}]
       ELSE UNCHANGED << pc, complete >>
    /\ UNCHANGED << config_vars, hook_vars, described,
                    State, now, ticks, error, errors, ci, si,
                    stream_schema, xml_attribute_list, field_list, start_date, loop_now,
                    values, generic_locals, flushed, fetched, updates, flushes,
                    started, schemas, pages >>

\* sync_report_for_day: utils.update_state(STATE, key, start)
UpdateState ==
    /\ pc = "update_state"
    /\ State' = update_state(State, key, start_date)
    /\ updates' = [updates EXCEPT ![key] = Append(@, DayOf(start_date))]
    /\ pc' = "write_state"
    /\ UNCHANGED << config_vars, hook_vars, described,
                    now, ticks, error, errors, ci, si, field_list,
                    report_locals, generic_locals, flushed, fetched, complete,
                    flushes, started, lastRec, schemas, pages >>

\* sync_report_for_day: singer.write_state(STATE); then sync_report moves
\* start_date one day on
WriteState ==
    /\ pc = "write_state"
    /\ flushed' = [written |-> TRUE, state |-> State]
    /\ flushes' = [flushes EXCEPT ![key] = Append(@, DayOf(start_date))]
    /\ lastRec' = [ci |-> ci, si |-> si, day |-> DayOf(start_date),
                   first |-> 0, last |-> -1, closed |-> TRUE]
    /\ start_date' = NextStart(start_date)
    /\ values' = 0
    /\ i' = 0
    /\ pc' = "report_loop"
    /\ UNCHANGED << config_vars, hook_vars, described,
                    State, now, ticks, error, errors, ci, si,
                    stream_schema, xml_attribute_list, field_list, loop_now,
                    generic_locals, fetched, complete, updates, started,
                    schemas, pages >>

\* sync_report returns to do_sync
ReportDone ==
    /\ pc = "report_done"
    /\ pc' = "do_sync"
    /\ si' = si + 1
    /\ stream_schema' = <<>>
    /\ xml_attribute_list' = <<>>
    /\ field_list' = <<>>
    /\ start_date' = 0
    /\ loop_now' = 0
    /\ UNCHANGED << config_vars, hook_vars, described,
                    State, now, ticks, error, errors, ci, values,
                    i, generic_locals, flushed, report_history, lastRec,
                    schemas, pages >>


\* --------------------------------------------------------- entity streams
\* sync_generic_endpoint up to the loop: the schema declaration, the field
\* list of the selector, offset 0
SyncGenericEndpoint ==
    /\ pc = "sync_generic_endpoint"
    /\ stream_schema' = load_schema(stream_name)
    /\ schemas' = Append(schemas, key)
    /\ IF FieldsToSyncRaises(stream_schema', annotated_stream_schema)
       THEN /\ pc' = UncaughtException
            /\ error' = "KeyError"
            /\ UNCHANGED << field_list, offset, more_pages >>
       ELSE IF FilterRaises(stream_name)
       THEN /\ pc' = UncaughtException
            /\ error' = "Exception"
            /\ UNCHANGED << field_list, offset, more_pages >>
       ELSE /\ field_list' =
                   SeqMap(UpperFirst,
                          filter_fields_by_stream_name(stream_name,
                              get_fields_to_sync(stream_schema',
                                                 annotated_stream_schema)))
            /\ offset' = InitialOffset(State, key)
            /\ more_pages' = TRUE
            /\ pc' = "get_page"
            /\ error' = error
    /\ UNCHANGED << config_vars, hook_vars, described,
                    State, now, ticks, errors, ci, si,
                    xml_attribute_list, start_date, loop_now, values, i,
                    flushed, report_history, lastRec, pages >>

\* sync_generic_endpoint: service_caller.get(selector) at the current offset
GetPage ==
    /\ pc = "get_page"
    /\ more_pages
    /\ pages' = [pages EXCEPT ![key] = Append(@, offset)]
    /\ pc' = "page_entries"
    /\ UNCHANGED << config_vars, hook_vars, described,
                    State, now, ticks, error, errors, ci, si,
                    field_list, report_locals, generic_locals, flushed,
                    report_history, lastRec, schemas >>

\* sync_generic_endpoint: the entries of the page are written, the offset
\* moves on and the loop flag is set from the page's totalNumEntries
PageEntriesWritten ==
    /\ pc = "page_entries"
    /\ LET n == PageEntries(totalNumEntries, offset)
       IN  IF n > 0
           THEN lastRec' = [ci |-> ci, si |-> si, day |-> 0,
                            first |-> offset, last |-> offset + n - 1,
                            closed |-> FALSE]
           ELSE lastRec' = lastRec
    /\ offset' = NextOffset(offset)
    /\ more_pages' = MorePages(offset', totalNumEntries)
    /\ pc' = IF more_pages' THEN "get_page" ELSE "generic_done"
    /\ UNCHANGED << config_vars, hook_vars, described,
                    State, now, ticks, error, errors, ci, si,
                    field_list, report_locals, flushed, report_history,
                    schemas, pages >>

\* sync_generic_endpoint returns to do_sync
GenericDone ==
    /\ pc = "generic_done"
    /\ pc' = "do_sync"
    /\ si' = si + 1
    /\ stream_schema' = <<>>
    /\ field_list' = <<>>
    /\ offset' = 0
    /\ more_pages' = FALSE
    /\ UNCHANGED << config_vars, hook_vars, described,
                    State, now, ticks, error, errors, ci,
                    xml_attribute_list, start_date, loop_now, values, i,
                    flushed, report_history, lastRec, schemas, pages >>

\* ------------------------------------------------------- the environment
\* the wall clock advances
Tick ==
    /\ ticks < MaxTicks
    /\ now' = now + 1
    /\ ticks' = ticks + 1
    /\ UNCHANGED << config_vars, hook_vars, described,
                    State, pc, error, errors, ci, si, field_list,
                    report_locals, generic_locals, flushed, report_history,
                    lastRec, schemas, pages >>

\* the run is interrupted: a remote call or a write raises, or the process
\* is killed; nothing catches it
Crash ==
    /\ ~Terminated
    /\ pc' = UncaughtException
    /\ error' = "Crash"
    /\ UNCHANGED << config_vars, hook_vars, described,
                    State, now, ticks, errors, ci, si, field_list,
                    report_locals, generic_locals, flushed, report_history,
                    lastRec, schemas, pages >>

\* a second run is started with the state written last, or with the state
\* the first run was given when it wrote none
Restart ==
    /\ Terminated
    /\ run = 1
    /\ run' = 2
    /\ State' = IF flushed.written THEN flushed.state ELSE stateIn
    /\ stateIn' = State'
    /\ prev' = [fetched |-> fetched, complete |-> complete,
                flushes |-> flushes, pages |-> pages, started |-> started,
                failed |-> (pc = "failed")]
    /\ pc' = "do_sync_all_customers"
    /\ error' = ""
    /\ errors' = <<>>
    /\ ci' = 1
    /\ si' = 1
    /\ stream_schema' = <<>>
    /\ xml_attribute_list' = <<>>
    /\ field_list' = <<>>
    /\ start_date' = 0
    /\ loop_now' = 0
    /\ values' = 0
    /\ i' = 0
    /\ offset' = 0
    /\ more_pages' = FALSE
    /\ flushed' = NoFlush
    /\ fetched' = [k \in Keys |-> <<>>]
    /\ complete' = [k \in Keys |-> {}]
    /\ updates' = [k \in Keys |-> <<>>]
    /\ flushes' = [k \in Keys |-> <<>>]
    /\ started' = [k \in Keys |-> NotStarted]
    /\ lastRec' = NoRec
    /\ schemas' = <<>>
    /\ pages' = [k \in Keys |-> <<>>]
    /\ described' = <<>>
    /\ UNCHANGED << CONFIG, properties, totalNumEntries, now, ticks, hook_vars >>

\* --------------------------------------------------------------- inputs
Annotation(name, sel) == [name |-> name, selected |-> sel]

\* an annotation of a report stream that selects no conflicting fields
ReportAnnotation ==
    << Annotation("day", "none"), Annotation("clicks", "true"),
       Annotation("conversionName", "false"), Annotation("device", "true"),
       Annotation("customer_id", "none") >>

EntityAnnotation ==
    << Annotation("id", "none"), Annotation("name", "true"),
       Annotation("networkSetting", "true"), Annotation("labels", "false") >>

CatalogEntry(name, sel, props) ==
    [stream |-> name, selected |-> sel, properties |-> props]

\* an entity stream, a report with the bounded lookback, a report without,
\* and a stream that is not selected
FullCatalog ==
    << CatalogEntry("campaigns", TRUE, EntityAnnotation),
       CatalogEntry("CLICK_PERFORMANCE_REPORT", TRUE, ReportAnnotation),
       CatalogEntry("AD_PERFORMANCE_REPORT", TRUE, ReportAnnotation),
       CatalogEntry("ads", FALSE, EntityAnnotation) >>

ReportNames == {"CLICK_PERFORMANCE_REPORT", "AD_PERFORMANCE_REPORT"}

\* the clock when the run starts: any time of Day0
StartTimes == {Days(Day0) + s : s \in 0 .. SlotsPerDay - 1}

\* configured start dates: yesterday at midnight, or later that day
RecentStarts == {Days(Day0 - 1), Days(Day0 - 1) + 1}

\* stored cursors: two days ago, with a time of day
RecentCursors == {Days(Day0 - 2) + 1}

\* stored cursors from before the lookback cutoff, and one on its very day
OldCursors == {0, Days(Day0 - LOOKBACK_DAYS)}

\* the state files: empty, or one cursor for one stream of one account
StoredStates(customers, names, cursors) ==
    {<<>>} \cup {(state_key_name(c, n) :> t) :
                    c \in customers, n \in names, t \in cursors}

Init ==
    InitWith({<<"123", "456">>}, {FullCatalog}, RecentStarts, StartTimes,
             StoredStates({"123", "456"}, ReportNames, RecentCursors),
             {MaxTotal})

\* one run, which may be interrupted
Next ==
    \/ DoSyncAllCustomers
    \/ DoSync
    \/ SyncReport
    \/ CheckSelectedFields
    \/ GetStart
    \/ ReportLoop
    \/ DownloadReport
    \/ WriteRecord
    \/ UpdateState
    \/ WriteState
    \/ ReportDone
    \/ SyncGenericEndpoint
    \/ GetPage
    \/ PageEntriesWritten
    \/ GenericDone
    \/ Tick
    \/ Crash

Spec == Init /\ [][Next]_vars

\* ------------------------------------------------- a run and its resume
ReportCatalog ==
    << CatalogEntry("CLICK_PERFORMANCE_REPORT", TRUE, ReportAnnotation),
       CatalogEntry("AD_PERFORMANCE_REPORT", TRUE, ReportAnnotation) >>

InitResume ==
    InitWith({<<"123">>}, {ReportCatalog}, RecentStarts, StartTimes,
             StoredStates({"123"}, ReportNames, RecentCursors), {0})

\* a run of report streams, and a second run started from what it wrote
NextResume ==
    \/ DoSyncAllCustomers
    \/ DoSync
    \/ SyncReport
    \/ CheckSelectedFields
    \/ GetStart
    \/ ReportLoop
    \/ DownloadReport
    \/ WriteRecord
    \/ UpdateState
    \/ WriteState
    \/ ReportDone
    \/ Tick
    \/ Crash
    \/ Restart

SpecResume == InitResume /\ [][NextResume]_vars

\* ------------------------------------------------ entity streams, two runs
EntityCatalogs ==
    {<< CatalogEntry(n, TRUE, EntityAnnotation) >> : n \in {"campaigns", "ads"}}

\* whatever state is stored: none, or a cursor under the entity stream's key
InitEntity ==
    InitWith({<<"123">>}, EntityCatalogs, {Days(Day0 - 1)}, {Days(Day0)},
             StoredStates({"123"}, {"campaigns", "ads"}, RecentCursors),
             0 .. MaxTotal)

NextEntity ==
    \/ DoSyncAllCustomers
    \/ DoSync
    \/ SyncGenericEndpoint
    \/ GetPage
    \/ PageEntriesWritten
    \/ GenericDone
    \/ Crash
    \/ Restart

SpecEntity == InitEntity /\ [][NextEntity]_vars

\* --------------------------------------------- the selections of a report
\* every selection of the three optional fields, with or without a property
\* the discovered schema does not have
SelectAnnotations ==
    {<< Annotation("day", "none"), Annotation("clicks", a),
        Annotation("conversionName", b), Annotation("device", c),
        Annotation("customer_id", "none") >> \o extra :
        a \in {"true", "false"}, b \in {"true", "false"},
        c \in {"true", "false"},
        extra \in {<<>>, << Annotation("bogus", "true") >>,
                   << Annotation("bogus", "false") >>}}

InitSelect ==
    InitWith({<<"123">>},
             {<< CatalogEntry("AD_PERFORMANCE_REPORT", TRUE, a) >> :
                 a \in SelectAnnotations},
             RecentStarts, StartTimes,
             StoredStates({"123"}, {"AD_PERFORMANCE_REPORT"}, RecentCursors),
             {0})

NextSelect ==
    \/ DoSyncAllCustomers
    \/ DoSync
    \/ SyncReport
    \/ CheckSelectedFields
    \/ GetStart
    \/ ReportLoop
    \/ DownloadReport
    \/ WriteRecord
    \/ UpdateState
    \/ WriteState
    \/ ReportDone
    \/ Tick
    \/ Crash

SpecSelect == InitSelect /\ [][NextSelect]_vars

\* ------------------------------------------------- runs with old cursors
LookbackCatalogs ==
    {<< CatalogEntry(n, TRUE, ReportAnnotation) >> : n \in ReportNames}

InitLookback ==
    InitWith({<<"123">>}, LookbackCatalogs, RecentStarts, StartTimes,
             StoredStates({"123"}, ReportNames, RecentCursors \cup OldCursors),
             {0})

SpecLookback == InitLookback /\ [][NextSelect]_vars

\* ------------------------------------ field selection as a function
\* the discovered schemas: up to MaxFields properties, each with any
\* inclusion marker
DiscoveredSchemas ==
    UNION {UNION {{[k \in DOMAIN names |->
                       [name |-> names[k], field |-> names[k],
                        inclusion |-> incl[k]]] :
                     incl \in [DOMAIN names ->
                                 {"automatic", "available", "unsupported"}]} :
                  names \in SetToSeqs(N)} :
           N \in {M \in SUBSET {"id", "name", "labels"} :
                     Cardinality(M) <= MaxFields}}

\* the annotations: up to MaxFields properties, which may leave properties
\* of the discovered schema out, name one it does not have, and carry any
\* selection
AnnotatedSchemas ==
    UNION {UNION {{[k \in DOMAIN names |-> Annotation(names[k], sel[k])] :
                     sel \in [DOMAIN names -> {"true", "false", "none"}]} :
                  names \in SetToSeqs(N)} :
           N \in {M \in SUBSET {"id", "name", "labels", "bogus"} :
                     Cardinality(M) <= MaxFields}}

InitFields ==
    /\ CONFIG = [start_date |-> Days(Day0), customer_ids |-> <<"123">>]
    /\ properties \in {<< CatalogEntry("ads", TRUE, a) >> :
                          a \in AnnotatedSchemas}
    /\ State = <<>>
    /\ stateIn = State
    /\ totalNumEntries = 0
    /\ now = Days(Day0)
    /\ pc = "get_fields_to_sync"
    /\ stream_schema \in DiscoveredSchemas
    /\ InitLocals
    /\ InitHookIdle

\* get_fields_to_sync(discovered_schema, annotated_schema) on its own
GetFieldsToSync ==
    /\ pc = "get_fields_to_sync"
    /\ IF FieldsToSyncRaises(stream_schema, annotated_stream_schema)
       THEN /\ pc' = UncaughtException
            /\ error' = "KeyError"
            /\ UNCHANGED xml_attribute_list
       ELSE /\ xml_attribute_list' =
                   get_fields_to_sync(stream_schema, annotated_stream_schema)
            /\ pc' = "done"
            /\ error' = error
    /\ UNCHANGED << config_vars, hook_vars, described,
                    State, now, ticks, errors, ci, si,
                    stream_schema, field_list, start_date, loop_now, values,
                    i, generic_locals, flushed, report_history, lastRec,
                    schemas, pages >>

NextFields == GetFieldsToSync

SpecFields == InitFields /\ [][NextFields]_vars

\* -------------------------------------------- the pre-hook as a function
\* the characters the strings are drawn from
Chars == {"-", "%", " ", "x", "5"}

\* the strings: every string of up to MaxChars characters, and the
\* literals "> 90%", "< 10%", "12.5 x", "50%", "< 10% x" and "1--2"
RawStrings ==
    UNION {[1 .. n -> Chars] : n \in 0 .. MaxChars}
    \cup { << ">", " ", "9", "0", "%" >>, << "<", " ", "1", "0", "%" >>,
           << "1", "2", ".", "5", " ", "x" >>, << "5", "0", "%" >>,
           << "<", " ", "1", "0", "%", " ", "x" >>,
           << "1", "-", "-", "2" >> }

\* the raw values of report rows and entity objects: strings, null,
\* booleans, numbers, lists and nested objects
RawValues ==
    {Str(chars) : chars \in RawStrings}
    \cup {NullValue}
    \cup {[kind |-> k, s |-> <<>>, n |-> m] :
             k \in {"bool", "list", "dict"}, m \in {0, 1}}
    \cup {[kind |-> "num", s |-> <<>>, n |-> m] : m \in {0, 5}}

\* the types singer's transform hands to the hook
FieldTypes == {"null", "string", "number", "integer", "boolean"}

InitHook ==
    /\ CONFIG = [start_date |-> Days(Day0), customer_ids |-> <<"123">>]
    /\ properties = << CatalogEntry("ads", TRUE, EntityAnnotation) >>
    /\ State = <<>>
    /\ stateIn = State
    /\ totalNumEntries = 0
    /\ now = Days(Day0)
    /\ pc = "transform_pre_hook"
    /\ stream_schema = <<>>
    /\ InitLocals
    /\ data \in RawValues
    /\ typ \in FieldTypes
    /\ hooked = NullValue

\* transform_pre_hook(data, typ, schema) on its own
TransformPreHook ==
    /\ pc = "transform_pre_hook"
    /\ IF PreHookRaises(data, typ)
       THEN /\ pc' = UncaughtException
            /\ error' = "AttributeError"
            /\ hooked' = hooked
       ELSE /\ hooked' = transform_pre_hook(data, typ)
            /\ pc' = "done"
            /\ error' = error
    /\ UNCHANGED << config_vars, described, data, typ, State, now, ticks,
                    errors, ci, si, field_list, report_locals, generic_locals,
                    flushed, report_history, lastRec, schemas, pages >>

NextHook == TransformPreHook

SpecHook == InitHook /\ [][NextHook]_vars

\* ------------------------------------------------------------------ C1
\* seq is a prefix of the sequence of days `of`
IsPrefix(seq, of) ==
    /\ Len(seq) <= Len(of)
    /\ \A k \in DOMAIN seq : seq[k] = of[k]

\* the run is inside sync_report's loop, between two day-windows
BetweenWindows == pc \in {"report_loop", "sync_report_for_day", "report_done"}

\* C1: every day-window of a key gets one cursor update to its day and one
\* flush, both after all its records were written: the updates and the
\* flushes of a key are its fetched days in order, one each, with at most
\* the open window missing; an updated or flushed day is a day whose records
\* are all written; the cursor holds the day updated last; and whenever the
\* loop is about to fetch a day, every day fetched before is checkpointed.
C1_CheckpointPerWindow ==
    /\ \A k \in Keys :
        /\ IsPrefix(flushes[k], updates[k])
        /\ IsPrefix(updates[k], fetched[k])
        /\ Len(fetched[k]) <= Len(flushes[k]) + 1
        /\ Len(updates[k]) <= Len(flushes[k]) + 1
        /\ Range(updates[k]) \subseteq complete[k]
        /\ updates[k] # <<>> =>
              /\ k \in DOMAIN State
              /\ DayOf(State[k]) = updates[k][Len(updates[k])]
        /\ flushes[k] # <<>> =>
              /\ flushed.written
              /\ k \in DOMAIN flushed.state
              /\ DayOf(flushed.state[k]) = flushes[k][Len(flushes[k])]
    /\ BetweenWindows =>
          /\ flushes[key] = fetched[key]
          /\ updates[key] = fetched[key]
    /\ pc = "write_record" =>
          /\ Len(flushes[key]) = Len(fetched[key]) - 1
          /\ Len(updates[key]) = Len(fetched[key]) - 1

\* the rows of a window, more than one, are all written and the cursor is
\* set to its day, after an earlier window was checkpointed
C1_Witness ==
    /\ pc = "write_state"
    /\ values > 1
    /\ i = values
    /\ Len(updates[key]) >= 2
    /\ Len(flushes[key]) = Len(updates[key]) - 1

\* ------------------------------------------------------------------ C2
\* the days first .. last
DaysFromTo(first, last) == {d \in first .. last : TRUE}

\* the second run has finished, without a failure, the report of key k
ResumedAndDone(k) ==
    /\ run = 2
    /\ prev.failed
    /\ prev.started[k] # NotStarted
    /\ pc = "report_done"
    /\ key = k

\* C2: after a failed first run, the second run, started from the state
\* flushed last, fetches every day from the first run's initial day up to
\* today whose records the first run had not all written, and writes again
\* at most one day the first run had written completely.
C2_NoDayLostOneRepeated ==
    \A k \in Keys :
        ResumedAndDone(k) =>
            LET initial == DayOf(prev.started[k].start)
                today == DayOf(loop_now)
                again == Range(fetched[k]) \cap prev.complete[k]
            IN  /\ \A d \in DaysFromTo(initial, today) :
                       d \notin prev.complete[k] => d \in Range(fetched[k])
                /\ Cardinality(again) <= 1

\* the part of C2 about days lost
C2_NoDayLost ==
    \A k \in Keys :
        ResumedAndDone(k) =>
            \A d \in DaysFromTo(DayOf(prev.started[k].start), DayOf(loop_now)) :
                d \notin prev.complete[k] => d \in Range(fetched[k])

\* the part of C2 about days written again
C2_OneRepeated ==
    \A k \in Keys :
        ResumedAndDone(k) =>
            Cardinality(Range(fetched[k]) \cap prev.complete[k]) <= 1

\* ------------------------------------------------------------------ C3
\* the keys a cursor was stored for when the run started
StoredKeys == Keys \cap DOMAIN stateIn

LastRecOf(k) ==
    /\ lastRec # NoRec
    /\ ~lastRec.closed
    /\ k = state_key_name(CONFIG.customer_ids[lastRec.ci],
                          properties[lastRec.si].stream)

CursorAtStart(k) ==
    IF k \in DOMAIN stateIn THEN stateIn[k] ELSE CONFIG.start_date

\* C4: with today the day on which sync_report computes its cutoff, a report
\* with the bounded lookback never requests a day earlier than today - 90,
\* and when its cursor predates the cutoff its first day is exactly
\* today - 90; any other report starts at its cursor (the configured start
\* date when none is stored), unchanged.
C4_LookbackClamp ==
    \A k \in Keys :
        started[k] # NotStarted =>
            LET today == DayOf(started[k].utcnow)
                cutoffDay == today - LOOKBACK_DAYS
                cursor == CursorAtStart(k)
                first == started[k].start
            IN  IF k[1] \in REPORTS_WITH_90_DAY_MAX
                THEN /\ \A d \in Range(fetched[k]) : d >= cutoffDay
                     /\ DayOf(cursor) < cutoffDay =>
                           /\ DayOf(first) = cutoffDay
                           /\ fetched[k] # <<>> => fetched[k][1] = cutoffDay
                     /\ DayOf(cursor) >= cutoffDay => DayOf(first) = DayOf(cursor)
                ELSE /\ first = cursor
                     /\ fetched[k] # <<>> => fetched[k][1] = DayOf(cursor)

\* a report with the bounded lookback whose stored cursor is older than the
\* cutoff has fetched its first day
C4_Witness ==
    \E k \in StoredKeys :
        /\ k[1] \in REPORTS_WITH_90_DAY_MAX
        /\ started[k] # NotStarted
        /\ DayOf(stateIn[k]) < DayOf(started[k].utcnow) - LOOKBACK_DAYS
        /\ Len(fetched[k]) >= 2

\* ------------------------------------------------------------------ C5
\* the days first, first + 1, ..., last, in order
DaySeq(first, last) ==
    [k \in 1 .. (IF last >= first THEN last - first + 1 ELSE 0) |-> first + k - 1]

\* C5: a report sync that met no failure has fetched each day from its
\* initial day through today once, in order and without a gap, today being
\* the day of the clock as the loop's last test read it, and leaves today
\* as the stored cursor.
C5_ThroughTodayCursorToday ==
    pc = "report_done" =>
        LET today == DayOf(loop_now)
        IN  /\ fetched[key] = DaySeq(DayOf(started[key].start), today)
            /\ DayOf(State[key]) = today

\* ------------------------------------------------------------------ C6
\* max(1, ceil(T / PAGE_SIZE))
RequestsFor(T) ==
    IF T = 0 THEN 1 ELSE (T + PAGE_SIZE - 1) \div PAGE_SIZE

\* the run is inside the sync of an entity stream
InEntitySync ==
    pc \in {"get_page", "page_entries", "generic_done"}

\* C6: with the total T the server reports held constant, the page requests
\* of an entity stream are at offsets 0, PAGE_SIZE, 2 * PAGE_SIZE, ... in
\* that order; no offset but 0 is requested unless it is less than T; the
\* loop goes on to another request exactly when T exceeds the next offset;
\* there are never more than max(1, ceil(T / PAGE_SIZE)) requests and when
\* the loop has ended there were exactly that many.
C6_PagerOffsets ==
    /\ \A k \in Keys :
          /\ \A j \in DOMAIN pages[k] :
                /\ pages[k][j] = (j - 1) * PAGE_SIZE
                /\ pages[k][j] = 0 \/ pages[k][j] < totalNumEntries
          /\ Len(pages[k]) <= RequestsFor(totalNumEntries)
    /\ InEntitySync =>
          /\ pc = "get_page" => offset = Len(pages[key]) * PAGE_SIZE
          /\ (pc = "get_page" /\ pages[key] # <<>>) => totalNumEntries > offset
          /\ pc = "generic_done" =>
                /\ totalNumEntries <= offset
                /\ offset = Len(pages[key]) * PAGE_SIZE
                /\ Len(pages[key]) = RequestsFor(totalNumEntries)

\* a listing of 250 entries has ended after the requests at 0, 100 and 200
C6_Witness ==
    /\ pc = "generic_done"
    /\ totalNumEntries = 250
    /\ pages[key] = << 0, 100, 200 >>

\* ------------------------------------------------------------------ C7
\* the run is at a stream of the catalog
AtStream == ci <= Len(CONFIG.customer_ids) /\ si <= Len(properties)

\* the remote fields the annotation of the current stream selects, with the
\* automatic field day
ChosenFields ==
    {f \in Range(ReportFields) :
        \E a \in Range(annotated_stream_schema) :
            /\ a.name = f.xmlAttributeName
            /\ a.selected = "true" \/ f.xmlAttributeName = "day"}

\* the pairs of chosen fields one of which the metadata declares exclusive
\* of the other, by the names of their properties
ConflictPairs ==
    {{p[1].xmlAttributeName, p[2].xmlAttributeName} :
        p \in {q \in ChosenFields \X ChosenFields :
                  q[2].fieldName \in q[1].exclusiveFields}}

\* the pairs the error of check_selected_fields names
NamedPairs ==
    UNION {{{errors[k].field, w} : w \in errors[k].with} : k \in DOMAIN errors}

\* every property of the annotation is one of the discovered schema
AnnotationKnown ==
    \A a \in Range(annotated_stream_schema) :
        a.name \in SchemaNames(create_schema_for_report(stream_name))

\* nothing was requested, written or done to a cursor for the current stream
NothingSynced ==
    /\ fetched[key] = <<>>
    /\ started[key] = NotStarted
    /\ State = stateIn
    /\ ~flushed.written
    /\ lastRec = NoRec

PastSelectionCheck ==
    pc \in {"get_start", "report_loop", "sync_report_for_day", "write_record",
            "update_state", "write_state", "report_done"}

\* C7: when two selected fields of a report stream are declared mutually
\* exclusive, the sync never gets past check_selected_fields, so no report
\* is downloaded, no record written and no cursor read or written; the
\* error check_selected_fields raises names every conflicting pair and no
\* other, and with a known annotation it is the error the stream fails
\* with; without a conflict check_selected_fields raises nothing.
C7_ExclusionBeforeDownload ==
    AtStream =>
        /\ ConflictPairs # {} => ~PastSelectionCheck /\ NothingSynced
        /\ error = "ExclusionError" =>
              /\ ConflictPairs # {}
              /\ NamedPairs = ConflictPairs
              /\ NothingSynced
        /\ (ConflictPairs # {} /\ AnnotationKnown /\ pc = "failed"
               /\ error # "Crash") => error = "ExclusionError"
        /\ (ConflictPairs = {} /\ pc = "failed") =>
              error \in {"Crash", "KeyError"}

\* a selection with two conflicting pairs was refused
C7_Witness ==
    /\ AtStream
    /\ pc = "failed"
    /\ error = "ExclusionError"
    /\ Len(errors) = 2
    /\ Cardinality(ConflictPairs) = 2

\* ------------------------------------------------------------------ C8
\* the place of a record: account, stream, day
Place(r) == << r.ci, r.si, r.day >>

\* lexicographic order of places
PlaceBefore(a, b) ==
    \/ a[1] < b[1]
    \/ a[1] = b[1] /\ a[2] < b[2]
    \/ a[1] = b[1] /\ a[2] = b[2] /\ a[3] < b[3]

\* b may follow a as the mark of the last thing written: a record follows
\* in the same day-window with a greater ordinal or at a later place, after
\* a closed day-window only at a later place; the closing of a day-window
\* is at the place of its records or at a later one
MayFollow(a, b) ==
    \/ a = NoRec
    \/ PlaceBefore(Place(a), Place(b))
    \/ /\ Place(a) = Place(b)
       /\ ~a.closed
       /\ b.closed \/ a.last < b.first

\* C8: in a run every record written comes after the one written before it
\* in the order by account (as configured), stream (as in the catalog), day
\* and row ordinal, and once a day-window is closed no record of that day,
\* of an earlier day, stream or account is written.
C8_RecordOrder ==
    [][lastRec' # lastRec => MayFollow(lastRec, lastRec')]_vars

\* the second row of a day of the last stream of the second account
C8_Witness ==
    /\ lastRec.ci = 2
    /\ lastRec.si = 3
    /\ lastRec.first = 1
    /\ ~lastRec.closed

\* ------------------------------------------------------------------ C9
\* C9: the sync of entity streams leaves the state mapping as the run was
\* given it, reads no cursor, updates none and flushes no state; the first
\* page requested is at offset 0 whatever the state holds; a second run
\* requests the pages of the first again: what it has requested and what
\* the first requested are always one a prefix of the other, and when both
\* have ended without a failure they are the same.
C9_EntityFullResync ==
    /\ State = stateIn
    /\ ~flushed.written
    /\ \A k \in Keys :
          /\ started[k] = NotStarted
          /\ updates[k] = <<>>
          /\ flushes[k] = <<>>
          /\ pages[k] # <<>> => pages[k][1] = 0
          /\ run = 2 =>
                /\ IsPrefix(pages[k], prev.pages[k])
                      \/ IsPrefix(prev.pages[k], pages[k])
                /\ (pc = "done" /\ ~prev.failed) => pages[k] = prev.pages[k]

\* a second run has ended having fetched again the three pages of the
\* first, with an entry stored under the stream's key
C9_Witness ==
    /\ run = 2
    /\ pc = "done"
    /\ ~prev.failed
    /\ \E k \in StoredKeys :
          /\ Len(pages[k]) = 3
          /\ pages[k] = prev.pages[k]

\* ----------------------------------------------------------------- C10
\* the properties of the discovered schema whose inclusion is automatic
AutomaticFields(schema) ==
    {schema[k].name : k \in {j \in DOMAIN schema :
                                schema[j].inclusion = "automatic"}}

\* C10: whatever the annotation holds, every property of the discovered
\* schema with inclusion automatic is in the result of get_fields_to_sync.
C10_AutomaticAlwaysSynced ==
    pc = "done" =>
        AutomaticFields(stream_schema) \subseteq Range(xml_attribute_list)

\* ----------------------------------------------------------------- C11
\* the properties of the discovered schema whose inclusion is unsupported
UnsupportedFields(schema) ==
    {schema[k].name : k \in {j \in DOMAIN schema :
                                schema[j].inclusion = "unsupported"}}

\* C11: whatever the annotation holds, also selected = true, no property of
\* the discovered schema with inclusion unsupported is in the result of
\* get_fields_to_sync.
C11_UnsupportedNeverSynced ==
    pc = "done" =>
        UnsupportedFields(stream_schema) \cap Range(xml_attribute_list) = {}

\* ----------------------------------------------------------------- C12
\* a selection of a report with the exclusive fields clicks and
\* conversionName both selected
ConflictAnnotation ==
    << Annotation("day", "none"), Annotation("clicks", "true"),
       Annotation("conversionName", "true"), Annotation("device", "false"),
       Annotation("customer_id", "none") >>

\* catalogs with a stream that fails, before other streams or after them:
\* by selection validation, or by a property the schema does not have
FailingCatalogs ==
    { << CatalogEntry("campaigns", TRUE, EntityAnnotation),
         CatalogEntry("AD_PERFORMANCE_REPORT", TRUE, ConflictAnnotation),
         CatalogEntry("CLICK_PERFORMANCE_REPORT", TRUE, ReportAnnotation) >>,
      << CatalogEntry("campaigns", TRUE, EntityAnnotation),
         CatalogEntry("CLICK_PERFORMANCE_REPORT", TRUE, ReportAnnotation),
         CatalogEntry("AD_PERFORMANCE_REPORT", TRUE, ConflictAnnotation) >>,
      << CatalogEntry("campaigns", TRUE,
                      EntityAnnotation \o << Annotation("bogus", "false") >>),
         CatalogEntry("CLICK_PERFORMANCE_REPORT", TRUE, ReportAnnotation) >>,
      << CatalogEntry("CLICK_PERFORMANCE_REPORT", TRUE,
                      ReportAnnotation \o << Annotation("bogus", "false") >>),
         CatalogEntry("campaigns", TRUE, EntityAnnotation) >> }

InitFailFast ==
    InitWith({<<"123", "456">>}, FailingCatalogs, {Days(Day0 - 1)}, StartTimes,
             {<<>>}, {MaxTotal})

SpecFailFast == InitFailFast /\ [][Next]_vars

\* C12: once a stream has failed, by a schema or metadata failure, by the
\* selection validation or by an interrupted remote call, the run has ended:
\* no other stream and no other account is taken up, and no record, schema
\* declaration or state is written and no remote call is made from then on.
C12_FailFast ==
    [][error # "" =>
          /\ pc = "failed"
          /\ UNCHANGED << pc, error, ci, si, schemas, lastRec, flushed, flushes,
                          fetched, pages, described, State >>]_vars

\* the selection validation has failed the second of three streams of the
\* first account, after the pages of the first stream were fetched
C12_Witness ==
    /\ pc = "failed"
    /\ error = "ExclusionError"
    /\ ci = 1
    /\ si = 2
    /\ Len(properties) = 3
    /\ Len(pages[<<"campaigns", "123">>]) = 3
    /\ schemas = << <<"campaigns", "123">>, <<"AD_PERFORMANCE_REPORT", "123">> >>

\* ----------------------------------------------------------------- C13
\* the numeric fields of the table: the fields of type number
NumericType(t) == t = "number"

\* two neighbouring characters of the string are both "-"
HasSentinel(chars) ==
    \E k \in 1 .. Len(chars) - 1 : chars[k] = "-" /\ chars[k + 1] = "-"

RECURSIVE WithoutPercent(_)
\* the string without its '%' characters
WithoutPercent(chars) ==
    IF chars = <<>> THEN <<>>
    ELSE IF Head(chars) = "%" THEN WithoutPercent(Tail(chars))
    ELSE << Head(chars) >> \o WithoutPercent(Tail(chars))

\* the string without a trailing " x"
WithoutTimes(chars) ==
    IF /\ Len(chars) >= 2
       /\ chars[Len(chars) - 1] = " "
       /\ chars[Len(chars)] = "x"
    THEN [k \in 1 .. Len(chars) - 2 |-> chars[k]]
    ELSE chars

\* the substitution table
TableValue(chars, t) ==
    IF HasSentinel(chars) THEN NullValue
    ELSE IF ~NumericType(t) THEN Str(chars)
    ELSE IF chars = << ">", " ", "9", "0", "%" >>
    THEN Str(<< "9", "0", ".", "0", "1" >>)
    ELSE IF chars = << "<", " ", "1", "0", "%" >>
    THEN Str(<< "9", ".", "9", "9" >>)
    ELSE Str(WithoutPercent(WithoutTimes(chars)))

\* C13: for every string and every field type transform_pre_hook returns
\* what the substitution table gives, and raises nothing: null for a string
\* with "--" in it, for a field of type number 90.01 for "> 90%", 9.99 for
\* "< 10%", and otherwise the string without a trailing " x" and without
\* any '%'; for every other type the string itself.
C13_PreHookIsTable ==
    data.kind = "str" =>
        /\ pc # "failed"
        /\ pc = "done" => hooked = TableValue(data.s, typ)

\* "12.5 x" of a field of type number has become "12.5"
C13_Witness ==
    /\ pc = "done"
    /\ typ = "number"
    /\ data = Str(<< "1", "2", ".", "5", " ", "x" >>)
    /\ hooked = Str(<< "1", "2", ".", "5" >>)

\* ----------------------------------------------------------------- C18
\* C18: for every raw value (string, number, boolean, null, list or nested
\* object) and every field type the coercion step returns a value and
\* raises no error.
C18_CoercionNeverFails == pc = "transform_pre_hook" \/ pc = "done"

\* ----------------------------------------------------------------- C14
\* a configured start date later on the day the run starts
LateStarts == {Days(Day0) + 1}

\* runs of two report streams whose configured start date may be later
\* than the clock when the first stream is taken up
InitLateStart ==
    InitWith({<<"123">>}, {ReportCatalog}, RecentStarts \cup LateStarts,
             {Days(Day0)},
             StoredStates({"123"}, ReportNames, RecentCursors), {0})

SpecLateStart == InitLateStart /\ [][NextSelect]_vars

\* C14: every cursor of the state snapshot written last is an entry the run
\* was started with, unchanged, or a day of that key all of whose records
\* were written before the snapshot.
C14_FlushedOnlyCompleted ==
    flushed.written =>
        \A k \in DOMAIN flushed.state :
            \/ k \in DOMAIN stateIn /\ flushed.state[k] = stateIn[k]
            \/ DayOf(flushed.state[k]) \in complete[k]

\* ----------------------------------------------------------------- C15
\* C15: when a failure has ended the run, every cursor update_state has
\* advanced is in the state snapshot written last, with the value the
\* in-memory state mapping holds.
C15_AdvancedCursorWritten ==
    pc = "failed" =>
        \A k \in Keys :
            updates[k] # <<>> =>
                /\ flushed.written
                /\ k \in DOMAIN flushed.state
                /\ flushed.state[k] = State[k]

\* ----------------------------------------------------------------- C16
\* names of entity streams that GENERIC_ENDPOINT_MAPPINGS does not have
UnknownEntityNames == {"keywords"}

\* a catalog that selects an entity stream of an unknown name, with the
\* annotation of an entity stream or with one of a report
UnknownCatalogs ==
    {<< CatalogEntry(n, TRUE, a) >> :
        n \in UnknownEntityNames, a \in {EntityAnnotation, ReportAnnotation}}

InitUnknown ==
    InitWith({<<"123">>}, UnknownCatalogs, RecentStarts, StartTimes,
             {<<>>}, {MaxTotal})

SpecUnknown == InitUnknown /\ [][NextSelect]_vars

\* C16: for a selected stream whose name is that of an entity stream
\* outside the known four, no remote call is made (no metadata request, no
\* listing, no report download), no schema is declared and no record is
\* written, and the run does not go past the dispatch.
C16_UnknownEntityFatal ==
    \A k \in Keys :
        k[1] \in UnknownEntityNames =>
            /\ k \notin Range(described)
            /\ k \notin Range(schemas)
            /\ fetched[k] = <<>>
            /\ pages[k] = <<>>
            /\ lastRec = NoRec
            /\ pc \in {"do_sync_all_customers", "do_sync", "sync_report",
                      "sync_generic_endpoint", "failed"}

\* ----------------------------------------------------------------- C17
\* the position of a property in a schema
IndexIn(schema, name) == CHOOSE k \in DOMAIN schema : schema[k].name = name

\* C17: the result of get_fields_to_sync is in the order of the properties
\* of the discovered schema: of two fields of the result, the one that
\* comes first in the discovered schema comes first in the result,
\* whatever the order of the annotation.
C17_DiscoveredOrder ==
    pc = "done" =>
        \A a, b \in DOMAIN xml_attribute_list :
            (/\ a < b
             /\ xml_attribute_list[a] \in SchemaNames(stream_schema)
             /\ xml_attribute_list[b] \in SchemaNames(stream_schema))
            => IndexIn(stream_schema, xml_attribute_list[a])
                  < IndexIn(stream_schema, xml_attribute_list[b])

\* ----------------------------------------------------------------- C19
\* a step that writes a record of a day's report
WritesReportRecord == pc = "write_record" /\ lastRec' # lastRec

\* C19: the records of a day-window with n rows get _sdc_id 0, 1, ..., n-1
\* in row order, one per row: each record written carries the ordinal of
\* its row, the first of a window 0 and every other the successor of the
\* one before it in the same window, and when the rows are through the
\* last carries n - 1; and no day is fetched twice for a key in a run, so
\* a pair of day and _sdc_id is not used twice for a key.
C19_SdcIdOrdinals ==
    [][/\ WritesReportRecord =>
             /\ i < values
             /\ Place(lastRec') = << ci, si, DayOf(start_date) >>
             /\ lastRec'.first = i
             /\ lastRec'.last = i
             /\ i' = i + 1
             /\ i > 0 => /\ Place(lastRec) = Place(lastRec')
                         /\ ~lastRec.closed
                         /\ lastRec.last = i - 1
       /\ (pc = "update_state" /\ values > 0) =>
             /\ i = values
             /\ Place(lastRec) = << ci, si, DayOf(start_date) >>
             /\ lastRec.last = values - 1
       /\ \A k \in Keys :
             \A a, b \in DOMAIN fetched[k] :
                 a < b => fetched[k][a] < fetched[k][b]]_vars

\* the two rows of the second day-window of a stream are written
C19_Witness ==
    /\ pc = "update_state"
    /\ values = 2
    /\ i = 2
    /\ lastRec.last = 1
    /\ Len(fetched[key]) = 2

\* ----------------------------------------------------------------- C20
\* the names of the streams the catalog marks selected
SelectedNames ==
    {properties[j].stream : j \in {m \in DOMAIN properties :
                                      properties[m].selected}}

\* the schema declarations written for a stream name, for any account
DeclarationsOf(name) == {j \in DOMAIN schemas : schemas[j][1] = name}

\* the key of the account and stream the last record was written for
LastRecKey ==
    state_key_name(CONFIG.customer_ids[lastRec.ci],
                   properties[lastRec.si].stream)

=============================================================================
